---- MODULE Spec2Model ----
(***************************************************************************)
(* Model of the scoring pallet (pallets/scores): the reputation ledger,    *)
(* the post and comment score propagation and the storage items they       *)
(* write.  Storage writes take effect at the statement that makes them;    *)
(* a `?` return leaves the writes made so far in place.                    *)
(*                                                                         *)
(* Option<T> is modelled as a set with at most one element: {} is None,    *)
(* {v} is Some(v).                                                         *)
(***************************************************************************)
EXTENDS Integers, Sequences, FiniteSets, TLC

\* ------------------------------------------------------------------ bounds

\* Width of the reputation (u32 in the code), scaled down.
RepBits == 8
\* Width of the post, comment and space scores (i32 in the code), scaled down.
ScoreBits == 7
\* Number of calls made in one behaviour.
MaxSteps == 3

MaxRep == 2 ^ RepBits - 1
MaxScore == 2 ^ (ScoreBits - 1) - 1
MinScore == - (2 ^ (ScoreBits - 1))

\* ------------------------------------------------------------------ world

Accounts == {"x", "o"}

\* Content: posts 1 and 2 are regular posts of space 1, post 5 is a regular
\* post without a space, 3 is a comment whose root post is post 1, 4 a comment
\* whose root post is post 5.
PostIds == 1 .. 5
SpaceIds == {1}

ScoringAction ==
    {"UpvotePost", "DownvotePost", "SharePost", "CreateComment", "UpvoteComment",
     "DownvoteComment", "ShareComment", "FollowSpace", "FollowAccount"}

None == {}
Some(v) == {v}
Unwrap(opt) == CHOOSE v \in opt : TRUE

\* A storage map is a function on the keys that have a value.
Get(map, key) == IF key \in DOMAIN map THEN Some(map[key]) ELSE None
Insert(map, key, value) == [k \in DOMAIN map \cup {key} |-> IF k = key THEN value ELSE map[k]]
Remove(map, key) == [k \in DOMAIN map \ {key} |-> map[k]]
EmptyMap == [k \in {} |-> 0]

\* post.created.account: account x owns post 2, account o the other content.
created_account(post_id) == IF post_id = 2 THEN "x" ELSE "o"

\* The posts inside space 1.
SpacePosts == {1, 2}

\* Every post inside space 1.
space_id_always(post_id) == Some(1)

\* post.space_id
space_id(post_id) == IF post_id \in SpacePosts THEN Some(1) ELSE None

\* post.is_comment()
is_comment(post_id) == post_id \in {3, 4}

\* The id of the root post of a comment.
root_post_id(comment_id) == IF comment_id = 4 THEN 5 ELSE 1

\* ------------------------------------------------------------------ weights

UpvotePostActionWeight == 5
DownvotePostActionWeight == -3
SharePostActionWeight == 7
CreateCommentActionWeight == 5
UpvoteCommentActionWeight == 4
DownvoteCommentActionWeight == -2
ShareCommentActionWeight == 5
FollowSpaceActionWeight == 7
FollowAccountActionWeight == 3

weight_of_scoring_action(action) ==
    CASE action = "UpvotePost" -> UpvotePostActionWeight
      [] action = "DownvotePost" -> DownvotePostActionWeight
      [] action = "SharePost" -> SharePostActionWeight
      [] action = "CreateComment" -> CreateCommentActionWeight
      [] action = "UpvoteComment" -> UpvoteCommentActionWeight
      [] action = "DownvoteComment" -> DownvoteCommentActionWeight
      [] action = "ShareComment" -> ShareCommentActionWeight
      [] action = "FollowSpace" -> FollowSpaceActionWeight
      [] action = "FollowAccount" -> FollowAccountActionWeight

\* ------------------------------------------------------------------ smoothing

\* pallet_utils::log_2: None for 0, else Some(floor(log2(x))).
RECURSIVE FloorLog2(_)
FloorLog2(x) == IF x <= 1 THEN 0 ELSE 1 + FloorLog2(x \div 2)

log_2(x) == IF x = 0 THEN None ELSE Some(FloorLog2(x))

\* The smoothing without the final division by 100.
smooth_reputation_percent(reputation) ==
    IF log_2(reputation) = None THEN 1
    ELSE LET r == Unwrap(log_2(reputation))
             d == ((reputation - 2 ^ r) * 100) \div (2 ^ r)
         IN ((r + 1) * 100 + d) % 256

smooth_reputation(reputation) ==
    IF log_2(reputation) = None THEN 1
    ELSE LET r == Unwrap(log_2(reputation))
             d == ((reputation - 2 ^ r) * 100) \div (2 ^ r)
         IN (((r + 1) * 100 + d) \div 100) % 256

score_diff_for_action(reputation, action) ==
    smooth_reputation(reputation) * weight_of_scoring_action(action)

\* ------------------------------------------------------------------ reactions

PostExtension == {"RegularPost", "SharedPost", "Comment"}
ReactionKind == {"Upvote", "Downvote"}

\* The mapping with the reverse flag left out.
scoring_action_ignoring_reverse(extension, reaction_kind, reverse) ==
    IF extension \in {"RegularPost", "SharedPost"}
    THEN IF reaction_kind = "Upvote" THEN "UpvotePost" ELSE "DownvotePost"
    ELSE IF reaction_kind = "Upvote" THEN "UpvoteComment" ELSE "DownvoteComment"

scoring_action_by_post_extension(extension, reaction_kind, reverse) ==
    IF extension \in {"RegularPost", "SharedPost"}
    THEN IF reaction_kind = "Upvote"
         THEN IF reverse THEN "DownvotePost" ELSE "UpvotePost"
         ELSE IF reverse THEN "UpvotePost" ELSE "DownvotePost"
    ELSE IF reaction_kind = "Upvote"
         THEN IF reverse THEN "DownvoteComment" ELSE "UpvoteComment"
         ELSE IF reverse THEN "UpvoteComment" ELSE "DownvoteComment"

\* ------------------------------------------------------------------ state

VARIABLES
    SocialAccountById,               \* account -> reputation of the stored account
    PostById,                        \* post id -> score of the stored post
    SpaceById,                       \* space id -> score of the stored space
    PostScoreByAccount,              \* (account, post id, action) -> i16
    AccountReputationDiffByAccount,  \* (scorer, account, action) -> i16
    events,                          \* events deposited by the last call
    last,                            \* the last call and its result
    pre,                             \* the storage before the last call
    steps                            \* number of calls made

\* The storage of the faucets pallet, with the balances and the block number
\* it reads.
VARIABLES
    NextDropId,                      \* the id of the next Drop
    DropById,                        \* drop id -> Drop
    DropIdByRecipient,               \* recipient -> drop id
    SettingsByFaucet,                \* faucet -> FaucetSettings
    TotalFaucetDropsByAccount,       \* (first key, second key) -> balance
    free_balance,                    \* account -> free balance
    block_number                     \* the current block

faucetVars == <<NextDropId, DropById, DropIdByRecipient, SettingsByFaucet,
                TotalFaucetDropsByAccount, free_balance, block_number>>

\* The history of the faucets, kept beside the storage.
VARIABLES
    drips_total,                     \* (faucet, recipient) -> amount dripped so far
    drips_since                      \* (faucet, recipient, block) -> amount dripped
                                     \* since the faucet's settings were last set

historyVars == <<drips_total, drips_since>>

scoreVars == <<SocialAccountById, PostById, SpaceById, PostScoreByAccount,
               AccountReputationDiffByAccount>>

vars == <<scoreVars, events, last, pre, steps, faucetVars, historyVars>>

\* The storage as one record, threaded through the handlers.
Storage ==
    [SocialAccountById |-> SocialAccountById,
     PostById |-> PostById,
     SpaceById |-> SpaceById,
     PostScoreByAccount |-> PostScoreByAccount,
     AccountReputationDiffByAccount |-> AccountReputationDiffByAccount]


\* ------------------------------------------------------------------ helpers

\* The result of a handler: the storage and events it leaves, the caller's
\* post struct, the DispatchResult and the number of nested scoring calls.
Ret(s, ev, post, res, calls) ==
    [s |-> s, ev |-> ev, post |-> post, res |-> res, calls |-> calls]

\* Profiles::get_or_new_social_account: the stored account, or a new one
\* with reputation 1.
get_or_new_social_account(s, account) ==
    IF Get(s.SocialAccountById, account) = None THEN 1
    ELSE Unwrap(Get(s.SocialAccountById, account))

\* ------------------------------------------------------------------ ledger

\* `x as u32` of an i16: sign extension, then the low bits.
AsU32(x) == x % (2 ^ RepBits)

\* reputation.wrapping_add(score_diff as u32)
WrappingAddReputation(reputation, score_diff) ==
    Some((reputation + AsU32(score_diff)) % (2 ^ RepBits))

\* reputation.checked_add(score_diff as u32)
CheckedAddReputation(reputation, score_diff) ==
    IF reputation + AsU32(score_diff) > MaxRep
    THEN None
    ELSE Some(reputation + AsU32(score_diff))

\* reputation.checked_sub(score_diff as u32)
CheckedSubReputation(reputation, score_diff) ==
    IF reputation < AsU32(score_diff)
    THEN None
    ELSE Some(reputation - AsU32(score_diff))

\* The commit that inserts the diff record whether or not one exists.
LedgerCommitInsertOnly(s, ev, account, scorer, reputation, score_diff, action) ==
    Ret([s EXCEPT
            !.AccountReputationDiffByAccount =
                Insert(@, <<scorer, account, action>>, score_diff),
            !.SocialAccountById = Insert(@, account, reputation)],
        Append(ev, <<account, action, reputation>>), <<>>, "Ok", 0)

\* Lines 303-313: toggle the diff record, store the account, deposit the event.
LedgerCommit(s, ev, account, scorer, reputation, score_diff, action) ==
    Ret([s EXCEPT
            !.AccountReputationDiffByAccount =
                IF Get(@, <<scorer, account, action>>) # None
                THEN Remove(@, <<scorer, account, action>>)
                ELSE Insert(@, <<scorer, account, action>>, score_diff),
            !.SocialAccountById = Insert(@, account, reputation)],
        Append(ev, <<account, action, reputation>>), <<>>, "Ok", 0)

\* Lines 293-301, on the reputation and the score_diff the clamp leaves.
LedgerArithmetic(s, ev, account, scorer, reputation, score_diff, action) ==
    IF score_diff > 0
    THEN IF CheckedAddReputation(reputation, score_diff) = None
         THEN Ret(s, ev, <<>>, "ReputationOverflow", 0)
         ELSE LedgerCommit(s, ev, account, scorer,
                           Unwrap(CheckedAddReputation(reputation, score_diff)),
                           score_diff, action)
    ELSE IF score_diff < 0
    THEN IF CheckedSubReputation(reputation, score_diff) = None
         THEN Ret(s, ev, <<>>, "ReputationUnderflow", 0)
         ELSE LedgerCommit(s, ev, account, scorer,
                           Unwrap(CheckedSubReputation(reputation, score_diff)),
                           score_diff, action)
    ELSE LedgerCommit(s, ev, account, scorer, reputation, score_diff, action)

\* The ledger without the floor clamp of lines 288-291.
change_social_account_reputation_unclamped(s, ev, account, scorer, score_diff, action) ==
    LedgerArithmetic(s, ev, account, scorer,
                     get_or_new_social_account(s, account), score_diff, action)

change_social_account_reputation(s, ev, account, scorer, score_diff, action) ==
    IF get_or_new_social_account(s, account) + score_diff <= 1
    THEN LedgerArithmetic(s, ev, account, scorer, 1, 0, action)
    ELSE LedgerArithmetic(s, ev, account, scorer,
                          get_or_new_social_account(s, account), score_diff, action)

\* ------------------------------------------------------------------ scores

InI32(x) == MinScore <= x /\ x <= MaxScore

\* score.checked_add(score_diff as i32), score.checked_sub(score_diff as i32)
CheckedAddScore(score, score_diff) ==
    IF InI32(score + score_diff) THEN Some(score + score_diff) ELSE None

CheckedSubScore(score, score_diff) ==
    IF InI32(score - score_diff) THEN Some(score - score_diff) ELSE None

\* The owner check left out.
IsNotOwnerUnchecked(post_id, account) == TRUE

\* post.created.account != account
IsNotOwner(post_id, account) == created_account(post_id) # account

\* Posts::ensure_post_exists
ensure_post_exists(s, post_id) == post_id \in DOMAIN s.PostById

\* The post struct a caller holds: its id and its score field.
LoadPost(s, post_id) == [id |-> post_id, score |-> s.PostById[post_id]]

\* The caller's post struct with a new score.
WithScore(post, score) == [post EXCEPT !.score = score]

\* The reversal of the opposite vote left out.
OppositePostActionIgnored(action) == None

\* The match on the action with an arm for CreateComment that reverses an
\* upvote.
OppositePostActionCompounding(action) ==
    CASE action = "UpvotePost" -> Some("DownvotePost")
      [] action = "DownvotePost" -> Some("UpvotePost")
      [] action = "CreateComment" -> Some("UpvotePost")
      [] OTHER -> None

\* The opposite vote of a vote on a post, None for the other actions.
OppositePostAction(action) ==
    CASE action = "UpvotePost" -> Some("DownvotePost")
      [] action = "DownvotePost" -> Some("UpvotePost")
      [] OTHER -> None

\* The opposite vote of a vote on a comment, None for the other actions.
OppositeCommentAction(action) ==
    CASE action = "UpvoteComment" -> Some("DownvoteComment")
      [] action = "DownvoteComment" -> Some("UpvoteComment")
      [] OTHER -> None

\* A handler's result seen by the handler that called it: one more nested call.
Nested(n) == [n EXCEPT !.calls = @ + 1]

RECURSIVE change_post_score(_, _, _, _, _)
RECURSIVE change_comment_score(_, _, _, _, _)

\* Lines 191-192 and 214-215: l is what the ledger call returned.
PostReversalDone(l, account, post, action, space_score) ==
    IF l.res # "Ok"
    THEN Ret(l.s, l.ev, post, l.res, 0)
    ELSE Ret([l.s EXCEPT
                 !.PostScoreByAccount = Remove(@, <<account, post.id, action>>),
                 !.PostById[post.id] = post.score,
                 !.SpaceById[Unwrap(space_id(post.id))] = space_score],
             l.ev, post, "Ok", 0)

\* Lines 186-192: the reversal branch; space is the score of the loaded space.
PostReversal(s, ev, account, post, action, space, score_diff) ==
    IF Get(s.AccountReputationDiffByAccount,
           <<account, created_account(post.id), action>>) = None
    THEN Ret(s, ev, post, "ReputationDiffNotFound", 0)
    ELSE IF CheckedSubScore(post.score, score_diff) = None
    THEN Ret(s, ev, post, "PostScoreUnderflow", 0)
    ELSE IF CheckedSubScore(space, score_diff) = None
    THEN Ret(s, ev, WithScore(post, post.score - score_diff), "SpaceScoreUnderflow", 0)
    ELSE PostReversalDone(
             change_social_account_reputation(
                 s, ev, created_account(post.id), account,
                 - Unwrap(Get(s.AccountReputationDiffByAccount,
                              <<account, created_account(post.id), action>>)),
                 action),
             account, WithScore(post, post.score - score_diff), action,
             space - score_diff)

\* Lines 210-211 and 214-215: l is what the ledger call returned.
PostFreshDone(l, account, post, action, space_score, score_diff, calls) ==
    IF l.res # "Ok"
    THEN Ret(l.s, l.ev, post, l.res, calls)
    ELSE Ret([l.s EXCEPT
                 !.PostScoreByAccount =
                     Insert(@, <<account, post.id, action>>, score_diff),
                 !.PostById[post.id] = post.score,
                 !.SpaceById[Unwrap(space_id(post.id))] = space_score],
             l.ev, post, "Ok", calls)

\* Lines 207-211: n is what the match on the action left, space is the score of
\* the space as loaded at line 181.
PostFresh(n, account, action, space, score_diff) ==
    IF n.res # "Ok"
    THEN n
    ELSE IF CheckedAddScore(n.post.score, score_diff) = None
    THEN Ret(n.s, n.ev, n.post, "PostScoreOverflow", n.calls)
    ELSE IF CheckedAddScore(space, score_diff) = None
    THEN Ret(n.s, n.ev, WithScore(n.post, n.post.score + score_diff),
             "SpaceScoreOverflow", n.calls)
    ELSE PostFreshDone(
             change_social_account_reputation(
                 n.s, n.ev, created_account(n.post.id), account, score_diff, action),
             account, WithScore(n.post, n.post.score + score_diff), action,
             space + score_diff, score_diff, n.calls)

\* Lines 194-206: the reversal of the opposite vote, when there is one.
PostOpposite(s, ev, account, post, action) ==
    IF OppositePostAction(action) = None
    THEN Ret(s, ev, post, "Ok", 0)
    ELSE IF Get(s.PostScoreByAccount,
                <<account, post.id, Unwrap(OppositePostAction(action))>>) = None
    THEN Ret(s, ev, post, "Ok", 0)
    ELSE Nested(change_post_score(s, ev, account, post,
                                  Unwrap(OppositePostAction(action))))

\* Lines 175-219: s holds the actor's account, stored at line 173 with the
\* reputation read at line 170.
PostScored(s, ev, account, reputation, post, action) ==
    IF ~ensure_post_exists(s, post.id)
    THEN Ret(s, ev, post, "PostNotFound", 0)
    ELSE IF space_id(post.id) = None
    THEN Ret(s, ev, post, "Ok", 0)
    ELSE IF Unwrap(space_id(post.id)) \notin DOMAIN s.SpaceById
    THEN Ret(s, ev, post, "SpaceNotFound", 0)
    ELSE IF ~IsNotOwner(post.id, account)
    THEN Ret(s, ev, post, "Ok", 0)
    ELSE IF Get(s.PostScoreByAccount, <<account, post.id, action>>) # None
    THEN PostReversal(s, ev, account, post, action,
                      s.SpaceById[Unwrap(space_id(post.id))],
                      Unwrap(Get(s.PostScoreByAccount, <<account, post.id, action>>)))
    ELSE PostFresh(PostOpposite(s, ev, account, post, action), account, action,
                   s.SpaceById[Unwrap(space_id(post.id))],
                   score_diff_for_action(reputation, action))

change_post_score(s, ev, account, post, action) ==
    IF is_comment(post.id)
    THEN Ret(s, ev, post, "PostIsAComment", 0)
    ELSE PostScored(
             [s EXCEPT !.SocialAccountById =
                           Insert(@, account, get_or_new_social_account(s, account))],
             ev, account, get_or_new_social_account(s, account), post, action)

\* comment.get_root_post(): the stored root post, or an error when it is absent.
get_root_post(s, comment_id) ==
    IF root_post_id(comment_id) \in DOMAIN s.PostById
    THEN Some(LoadPost(s, root_post_id(comment_id)))
    ELSE None

\* Lines 246-247 and 271: l is what the ledger call returned.
CommentReversalDone(l, account, comment, action) ==
    IF l.res # "Ok"
    THEN Ret(l.s, l.ev, comment, l.res, 0)
    ELSE Ret([l.s EXCEPT
                 !.PostScoreByAccount = Remove(@, <<account, comment.id, action>>),
                 !.PostById[comment.id] = comment.score],
             l.ev, comment, "Ok", 0)

\* Lines 242-247: the reversal branch.
CommentReversal(s, ev, account, comment, action, score_diff) ==
    IF Get(s.AccountReputationDiffByAccount,
           <<account, created_account(comment.id), action>>) = None
    THEN Ret(s, ev, comment, "ReputationDiffNotFound", 0)
    ELSE IF CheckedSubScore(comment.score, score_diff) = None
    THEN Ret(s, ev, comment, "CommentScoreUnderflow", 0)
    ELSE CommentReversalDone(
             change_social_account_reputation(
                 s, ev, created_account(comment.id), account,
                 - Unwrap(Get(s.AccountReputationDiffByAccount,
                              <<account, created_account(comment.id), action>>)),
                 action),
             account, WithScore(comment, comment.score - score_diff), action)

\* Lines 268-271: l is what the ledger call returned.
CommentFreshDone(l, account, comment, action, score_diff, calls) ==
    IF l.res # "Ok"
    THEN Ret(l.s, l.ev, comment, l.res, calls)
    ELSE Ret([l.s EXCEPT
                 !.PostScoreByAccount =
                     Insert(@, <<account, comment.id, action>>, score_diff),
                 !.PostById[comment.id] = comment.score],
             l.ev, comment, "Ok", calls)

\* Lines 266-269: n is what the match on the action left.
CommentFresh(n, account, action, score_diff) ==
    IF n.res # "Ok"
    THEN n
    ELSE IF CheckedAddScore(n.post.score, score_diff) = None
    THEN Ret(n.s, n.ev, n.post, "CommentScoreOverflow", n.calls)
    ELSE CommentFreshDone(
             change_social_account_reputation(
                 n.s, n.ev, created_account(n.post.id), account, score_diff, action),
             account, WithScore(n.post, n.post.score + score_diff), action,
             score_diff, n.calls)

\* Lines 261-262: what the call on the root post returned, with the comment
\* as the caller's post struct.
Forwarded(n, comment) == Ret(n.s, n.ev, comment, n.res, n.calls + 1)

\* Lines 249-265: the reversal of the opposite vote, or the forwarding of
\* CreateComment to the root post.
CommentOpposite(s, ev, account, comment, action) ==
    IF OppositeCommentAction(action) # None
    THEN IF Get(s.PostScoreByAccount,
                <<account, comment.id, Unwrap(OppositeCommentAction(action))>>) = None
         THEN Ret(s, ev, comment, "Ok", 0)
         ELSE Nested(change_comment_score(s, ev, account, comment,
                                          Unwrap(OppositeCommentAction(action))))
    ELSE IF action = "CreateComment"
    THEN IF get_root_post(s, comment.id) = None
         THEN Ret(s, ev, comment, "PostNotFound", 0)
         ELSE Forwarded(change_post_score(s, ev, account,
                                          Unwrap(get_root_post(s, comment.id)), action),
                        comment)
    ELSE Ret(s, ev, comment, "Ok", 0)

\* Lines 234-274: s holds the actor's account, stored at line 232 with the
\* reputation read at line 229.
CommentScored(s, ev, account, reputation, comment, action) ==
    IF ~ensure_post_exists(s, comment.id)
    THEN Ret(s, ev, comment, "PostNotFound", 0)
    ELSE IF ~IsNotOwner(comment.id, account)
    THEN Ret(s, ev, comment, "Ok", 0)
    ELSE IF Get(s.PostScoreByAccount, <<account, comment.id, action>>) # None
    THEN CommentReversal(
             s, ev, account, comment, action,
             Unwrap(Get(s.PostScoreByAccount, <<account, comment.id, action>>)))
    ELSE CommentFresh(CommentOpposite(s, ev, account, comment, action), account, action,
                      score_diff_for_action(reputation, action))

change_comment_score(s, ev, account, comment, action) ==
    IF ~is_comment(comment.id)
    THEN Ret(s, ev, comment, "PostIsNotAComment", 0)
    ELSE CommentScored(
             [s EXCEPT !.SocialAccountById =
                           Insert(@, account, get_or_new_social_account(s, account))],
             ev, account, get_or_new_social_account(s, account), comment, action)

change_post_score_by_extension(s, ev, account, post, action) ==
    IF is_comment(post.id)
    THEN change_comment_score(s, ev, account, post, action)
    ELSE change_post_score(s, ev, account, post, action)

\* ------------------------------------------------------------------ genesis

\* The account of the sudo key.
root_key == "root"

\* The accounts that hold a balance.
Holders == Accounts \cup {root_key}

\* The free balance of the accounts at genesis.
GenesisBalance == [a \in Holders |-> IF a = "x" THEN 5 ELSE IF a = "o" THEN 3 ELSE 0]

\* The faucets pallet at genesis: NextDropId = 1 and the maps empty.
FaucetGenesis ==
    /\ NextDropId = 1
    /\ DropById = EmptyMap
    /\ DropIdByRecipient = EmptyMap
    /\ SettingsByFaucet = EmptyMap
    /\ TotalFaucetDropsByAccount = EmptyMap
    /\ free_balance = GenesisBalance
    /\ block_number = 1
    /\ drips_total = EmptyMap
    /\ drips_since = EmptyMap

\* ------------------------------------------------------------------ behaviour

\* Reputations a stored account may hold when the behaviour starts: one that
\* earlier scorers have raised, one two below the top of the range.  An account
\* that is not stored reads as reputation 1.
InitReputations == {6, MaxRep - 2}

Init ==
    /\ \E stored \in SUBSET Accounts :
           SocialAccountById \in [stored -> InitReputations]
    /\ PostById = [p \in PostIds |-> 0]
    /\ SpaceById = [sp \in SpaceIds |-> 0]
    /\ PostScoreByAccount = EmptyMap
    /\ AccountReputationDiffByAccount = EmptyMap
    /\ events = <<>>
    /\ last = [op |-> "none"]
    /\ pre = Storage
    /\ steps = 0
    /\ FaucetGenesis

\* A call returns r: the storage it leaves is the storage, and the call and
\* its result are recorded.
Returned(r, call) ==
    /\ SocialAccountById' = r.s.SocialAccountById
    /\ PostById' = r.s.PostById
    /\ SpaceById' = r.s.SpaceById
    /\ PostScoreByAccount' = r.s.PostScoreByAccount
    /\ AccountReputationDiffByAccount' = r.s.AccountReputationDiffByAccount
    /\ events' = r.ev
    /\ last' = [call EXCEPT !.res = r.res, !.calls = r.calls]
    /\ pre' = Storage
    /\ steps' = steps + 1
    /\ UNCHANGED <<faucetVars, historyVars>>

\* A caller loads the post and calls change_post_score_by_extension.
ChangePostScoreByExtension(account, post_id, action) ==
    /\ steps < MaxSteps
    /\ Returned(change_post_score_by_extension(
                    Storage, <<>>, account, LoadPost(Storage, post_id), action),
                [op |-> "score", account |-> account, post_id |-> post_id,
                 action |-> action, res |-> "", calls |-> 0])

\* The deltas of the direct ledger calls.
LedgerDiffs == {-3, 3}

\* A caller (the follow pallets) calls change_social_account_reputation.
ChangeSocialAccountReputation(account, scorer, diff, action) ==
    /\ steps < MaxSteps
    /\ Returned(change_social_account_reputation(
                    Storage, <<>>, account, scorer, diff, action),
                [op |-> "ledger", account |-> account, scorer |-> scorer,
                 diff |-> diff, action |-> action, res |-> "", calls |-> 0])

\* The actions the callers pass for a post: the comment actions for a comment,
\* the post actions for a regular post and, for the root post of a new comment,
\* CreateComment.
CallerActions(post_id) ==
    IF is_comment(post_id)
    THEN {"CreateComment", "UpvoteComment", "DownvoteComment", "ShareComment"}
    ELSE {"UpvotePost", "DownvotePost", "SharePost", "CreateComment"}

Next ==
    \/ \E account \in Accounts, post_id \in PostIds :
           \E action \in CallerActions(post_id) :
               ChangePostScoreByExtension(account, post_id, action)
    \/ \E account \in Accounts, diff \in LedgerDiffs :
           \E scorer \in Accounts \ {account} :
               ChangeSocialAccountReputation(account, scorer, diff, "FollowAccount")

Spec == Init /\ [][Next]_vars

\* The actions change_post_score_by_extension accepts for any post: the
\* function is public and takes the action as the caller gives it.
ContentActions ==
    {"UpvotePost", "DownvotePost", "SharePost", "CreateComment",
     "UpvoteComment", "DownvoteComment", "ShareComment"}

\* The callers pass any content action for any post.
NextAnyAction ==
    \E account \in Accounts, post_id \in PostIds, action \in ContentActions :
        ChangePostScoreByExtension(account, post_id, action)

SpecAnyAction == Init /\ [][NextAnyAction]_vars

\* ------------------------------------------------------------------ functions

\* The pure functions of the pallet, applied to inputs a caller chooses; the
\* storage is left alone, so one application per behaviour reaches all there
\* is to reach.
Computed(call, res) ==
    /\ steps = 0
    /\ last' = [call EXCEPT !.res = res]
    /\ pre' = Storage
    /\ steps' = steps + 1
    /\ UNCHANGED <<scoreVars, events, faucetVars, historyVars>>

ScoringActionByPostExtension(extension, reaction_kind, reverse) ==
    Computed([op |-> "map", extension |-> extension, reaction_kind |-> reaction_kind,
              reverse |-> reverse, res |-> ""],
             scoring_action_by_post_extension(extension, reaction_kind, reverse))

\* Largest exponent of the reputations the functions are applied to beyond
\* the scaled range.
MaxExp == 20

\* The reputations the smoothing is applied to: every value of the scaled
\* range, and the powers of two above it with their neighbours.
SmoothInputs ==
    (0 .. MaxRep) \cup UNION {{2 ^ k - 1, 2 ^ k, 2 ^ k + 1} : k \in RepBits .. MaxExp}

ScoreDiffForAction(reputation, action) ==
    Computed([op |-> "diff", reputation |-> reputation, action |-> action,
              smooth |-> smooth_reputation(reputation), res |-> 0],
             score_diff_for_action(reputation, action))

NextPure ==
    \/ \E extension \in PostExtension, reaction_kind \in ReactionKind,
          reverse \in BOOLEAN :
           ScoringActionByPostExtension(extension, reaction_kind, reverse)
    \/ \E reputation \in SmoothInputs, action \in ScoringAction :
           ScoreDiffForAction(reputation, action)

SpecPure == Init /\ [][NextPure]_vars

\* ------------------------------------------------------------------ faucets

\* Number of calls of the faucets pallet made in one behaviour.
MaxFaucetSteps == 5
\* The last block a behaviour reaches.
MaxBlock == 3

\* T::Currency::minimum_balance(): the existential deposit.
minimum_balance == 1

\* Balance::saturating_sub, BlockNumber::saturating_sub
SaturatingSub(a, b) == IF a >= b THEN a - b ELSE 0

\* The storage the faucets pallet reads and writes, as one record.
FaucetStorage ==
    [NextDropId |-> NextDropId,
     DropById |-> DropById,
     DropIdByRecipient |-> DropIdByRecipient,
     SettingsByFaucet |-> SettingsByFaucet,
     TotalFaucetDropsByAccount |-> TotalFaucetDropsByAccount,
     free_balance |-> free_balance,
     block_number |-> block_number]

\* A call of the faucets pallet returns res: the call and its result are
\* recorded; the scoring storage is left alone.
FaucetReturned(call, res, ev) ==
    /\ last' = [call EXCEPT !.res = res]
    /\ pre' = FaucetStorage
    /\ steps' = steps + 1
    /\ events' = IF res = "Ok" THEN <<ev>> ELSE <<>>
    /\ UNCHANGED scoreVars

require_faucet_settings(faucet) == Get(SettingsByFaucet, faucet)

\* The history when the settings of the given faucets are set, changed or
\* removed: what they dripped under their earlier settings is no longer
\* counted in drips_since.
SettingsSet(faucets) ==
    /\ drips_since' = [k \in {j \in DOMAIN drips_since : j[1] \notin faucets}
                           |-> drips_since[k]]
    /\ UNCHANGED drips_total

\* An absent key of a history map reads as 0.
Read(map, key) == IF key \in DOMAIN map THEN map[key] ELSE 0

\* The history when a drip has succeeded.
DripSucceeded(faucet, amount, recipient) ==
    /\ drips_total' = Insert(drips_total, <<faucet, recipient>>,
                             Read(drips_total, <<faucet, recipient>>) + amount)
    /\ drips_since' = Insert(drips_since, <<faucet, recipient, block_number>>,
                             Read(drips_since, <<faucet, recipient, block_number>>)
                                 + amount)

\* Currency::transfer: nothing moves for a zero value or a transfer to
\* oneself; the sender must hold the value and, with KeepAlive, keep the
\* minimum balance.
TransferResult(from, to, value, keep_alive) ==
    IF value = 0 \/ from = to THEN "Ok"
    ELSE IF free_balance[from] < value THEN "InsufficientBalance"
    ELSE IF keep_alive /\ free_balance[from] - value < minimum_balance THEN "KeepAlive"
    ELSE IF free_balance[to] + value < minimum_balance THEN "ExistentialDeposit"
    ELSE "Ok"

\* The balances after a transfer that returned Ok.
Transferred(balances, from, to, value) ==
    IF value = 0 \/ from = to THEN balances
    ELSE [balances EXCEPT ![from] = @ - value, ![to] = @ + value]

\* ensure_root(origin)
ensure_root(origin) == origin = "Root"

add_faucet_result(origin, faucet, settings) ==
    IF ~ensure_root(origin) THEN "BadOrigin"
    ELSE IF require_faucet_settings(faucet) # None THEN "FaucetAlreadyAdded"
    ELSE IF free_balance[faucet] < minimum_balance THEN "NoFreeBalanceOnAccount"
    ELSE "Ok"

add_faucet(origin, faucet, settings) ==
    /\ steps < MaxFaucetSteps
    /\ FaucetReturned([op |-> "add_faucet", origin |-> origin, faucet |-> faucet,
                       settings |-> settings, res |-> ""],
                      add_faucet_result(origin, faucet, settings),
                      <<"FaucetAdded", faucet>>)
    /\ SettingsByFaucet' =
           IF add_faucet_result(origin, faucet, settings) = "Ok"
           THEN Insert(SettingsByFaucet, faucet, settings)
           ELSE SettingsByFaucet
    /\ SettingsSet(IF add_faucet_result(origin, faucet, settings) = "Ok"
                   THEN {faucet} ELSE {})
    /\ UNCHANGED <<NextDropId, DropById, DropIdByRecipient, TotalFaucetDropsByAccount,
                   free_balance, block_number>>

\* Lines 171-190: the settings with the fields of the update that are given.
UpdatedSettings(settings, update) ==
    [settings EXCEPT
        !.period = IF update.period # None THEN Unwrap(update.period) ELSE @,
        !.period_limit = IF update.period_limit # None THEN Unwrap(update.period_limit) ELSE @,
        !.drop_limit = IF update.drop_limit # None THEN Unwrap(update.drop_limit) ELSE @]

update_faucet_result(origin, faucet, update) ==
    IF ~ensure_root(origin) THEN "BadOrigin"
    ELSE IF update.period = None /\ update.period_limit = None /\ update.drop_limit = None
    THEN "NothingToUpdate"
    ELSE IF require_faucet_settings(faucet) = None THEN "FaucetNotFound"
    ELSE IF UpdatedSettings(Unwrap(require_faucet_settings(faucet)), update)
                = Unwrap(require_faucet_settings(faucet))
    THEN "NothingToUpdate"
    ELSE "Ok"

update_faucet(origin, faucet, update) ==
    /\ steps < MaxFaucetSteps
    /\ FaucetReturned([op |-> "update_faucet", origin |-> origin, faucet |-> faucet,
                       update |-> update, res |-> ""],
                      update_faucet_result(origin, faucet, update),
                      <<"FaucetUpdated", faucet>>)
    /\ SettingsByFaucet' =
           IF update_faucet_result(origin, faucet, update) = "Ok"
           THEN Insert(SettingsByFaucet, faucet,
                       UpdatedSettings(Unwrap(require_faucet_settings(faucet)), update))
           ELSE SettingsByFaucet
    /\ SettingsSet(IF update_faucet_result(origin, faucet, update) = "Ok"
                   THEN {faucet} ELSE {})
    /\ UNCHANGED <<NextDropId, DropById, DropIdByRecipient, TotalFaucetDropsByAccount,
                   free_balance, block_number>>

\* Lines 218-229: each faucet of the set that has settings hands its free
\* balance to the sudo key and loses its settings.
RemovedFaucets(faucets) == {f \in faucets : require_faucet_settings(f) # None}

RECURSIVE SweptBalances(_, _)
SweptBalances(balances, faucets) ==
    IF faucets = {} THEN balances
    ELSE LET f == CHOOSE g \in faucets : TRUE
         IN SweptBalances(Transferred(balances, f, root_key, balances[f]), faucets \ {f})

remove_faucets_result(origin, faucets) ==
    IF ~ensure_root(origin) THEN "BadOrigin"
    ELSE IF faucets = {} THEN "NoFaucetsProvided"
    ELSE "Ok"

remove_faucets(origin, faucets) ==
    /\ steps < MaxFaucetSteps
    /\ FaucetReturned([op |-> "remove_faucets", origin |-> origin, faucets |-> faucets,
                       res |-> ""],
                      remove_faucets_result(origin, faucets),
                      <<"FaucetsRemoved", faucets>>)
    /\ IF remove_faucets_result(origin, faucets) = "Ok"
       THEN /\ free_balance' = SweptBalances(free_balance, RemovedFaucets(faucets))
            /\ SettingsByFaucet' =
                   [f \in DOMAIN SettingsByFaucet \ faucets |-> SettingsByFaucet[f]]
            /\ SettingsSet(RemovedFaucets(faucets))
       ELSE UNCHANGED <<free_balance, SettingsByFaucet, historyVars>>
    /\ UNCHANGED <<NextDropId, DropById, DropIdByRecipient, TotalFaucetDropsByAccount,
                   block_number>>

\* Drop::new
DropNew(id) == [id |-> id, last_drop_at |-> block_number, total_dropped |-> 0]

\* Self::drop_id_by_recipient(&recipient).and_then(Self::drop_by_id)
maybe_drop(recipient) ==
    IF Get(DropIdByRecipient, recipient) = None
    THEN None
    ELSE Get(DropById, DropIdByRecipient[recipient])

\* Lines 255-265: the stored Drop at the current block; when the period has
\* passed since last_drop_at the Drop starts anew.
PeriodUpdated(drop, settings) ==
    IF SaturatingSub(block_number,
                     IF settings.period = None THEN 0 ELSE Unwrap(settings.period))
           >= drop.last_drop_at
    THEN [drop EXCEPT !.last_drop_at = block_number,
                      !.total_dropped = IF settings.period # None THEN 0 ELSE @]
    ELSE drop

\* Lines 246-266: the Drop the call works on.
CurrentDrop(recipient, settings) ==
    IF maybe_drop(recipient) = None
    THEN DropNew(NextDropId)
    ELSE PeriodUpdated(Unwrap(maybe_drop(recipient)), settings)

\* The amount allowed without looking at what the Drop has received.
AmountAllowedPerDrip(settings, drop) == settings.period_limit

\* settings.period_limit.saturating_sub(drop.total_dropped)
AmountAllowed(settings, drop) == SaturatingSub(settings.period_limit, drop.total_dropped)

\* Lines 241-276: the checks of drip once the faucet has settings.
drip_checks(faucet, amount, recipient, settings) ==
    IF amount > settings.drop_limit THEN "DropAmountLimit"
    ELSE IF AmountAllowed(settings, CurrentDrop(recipient, settings)) < amount
    THEN "FaucetLimitReached"
    ELSE TransferResult(faucet, recipient, amount, TRUE)

drip_result(faucet, amount, recipient) ==
    IF amount = 0 THEN "ZeroAmount"
    ELSE IF require_faucet_settings(faucet) = None THEN "FaucetNotFound"
    ELSE drip_checks(faucet, amount, recipient, Unwrap(require_faucet_settings(faucet)))

\* TotalFaucetDropsByAccount is a ValueQuery map: an absent key reads as 0.
TotalDrops(k1, k2) ==
    IF <<k1, k2>> \in DOMAIN TotalFaucetDropsByAccount
    THEN TotalFaucetDropsByAccount[<<k1, k2>>]
    ELSE 0

\* Lines 278-287: the writes of a drip whose checks passed; drop is the Drop
\* the call works on.
Dripped(faucet, amount, recipient, drop) ==
    /\ free_balance' = Transferred(free_balance, faucet, recipient, amount)
    /\ TotalFaucetDropsByAccount' =
           Insert(TotalFaucetDropsByAccount, <<recipient, faucet>>,
                  TotalDrops(recipient, faucet) + amount)
    /\ DropIdByRecipient' = Insert(DropIdByRecipient, recipient, drop.id)
    /\ DropById' = Insert(DropById, drop.id,
                          [drop EXCEPT !.total_dropped = @ + amount])
    /\ NextDropId' = IF maybe_drop(recipient) = None THEN NextDropId + 1 ELSE NextDropId
    /\ UNCHANGED <<SettingsByFaucet, block_number>>
    /\ DripSucceeded(faucet, amount, recipient)

\* The writes of a drip that stores the Drop as soon as its period rollover
\* is computed, before the checks that follow.
drip_writes_rollover_stored(res, faucet, amount, recipient) ==
    IF res = "Ok"
    THEN Dripped(faucet, amount, recipient,
                 CurrentDrop(recipient, Unwrap(require_faucet_settings(faucet))))
    ELSE IF res \in {"FaucetLimitReached", "KeepAlive", "InsufficientBalance"}
            /\ maybe_drop(recipient) # None
    THEN /\ DropById' =
                Insert(DropById, DropIdByRecipient[recipient],
                       CurrentDrop(recipient, Unwrap(require_faucet_settings(faucet))))
         /\ UNCHANGED <<NextDropId, DropIdByRecipient, SettingsByFaucet,
                        TotalFaucetDropsByAccount, free_balance, block_number,
                        historyVars>>
    ELSE UNCHANGED <<faucetVars, historyVars>>

\* The writes of a drip that returned res: all of them follow the last check
\* (lines 278-284), so a drip that fails writes nothing.
drip_writes(res, faucet, amount, recipient) ==
    IF res = "Ok"
    THEN Dripped(faucet, amount, recipient,
                 CurrentDrop(recipient, Unwrap(require_faucet_settings(faucet))))
    ELSE UNCHANGED <<faucetVars, historyVars>>

drip(faucet, amount, recipient) ==
    /\ steps < MaxFaucetSteps
    /\ FaucetReturned([op |-> "drip", faucet |-> faucet, amount |-> amount,
                       recipient |-> recipient, res |-> ""],
                      drip_result(faucet, amount, recipient),
                      <<"Dropped", faucet, recipient, amount>>)
    /\ drip_writes(drip_result(faucet, amount, recipient), faucet, amount, recipient)

\* The chain produces the next block.
NextBlock ==
    /\ block_number < MaxBlock
    /\ block_number' = block_number + 1
    /\ UNCHANGED <<scoreVars, events, last, pre, steps, NextDropId, DropById,
                   DropIdByRecipient, SettingsByFaucet, TotalFaucetDropsByAccount,
                   free_balance, historyVars>>

\* The origins of the calls that ask for the root origin.
AdminOrigins == {"Root", "x"}

\* The settings the root key gives a faucet.
SettingsInputs ==
    {[period |-> None, period_limit |-> 3, drop_limit |-> 2],
     [period |-> Some(2), period_limit |-> 2, drop_limit |-> 3]}

\* The updates the root key makes.
UpdateInputs ==
    {[period |-> None, period_limit |-> None, drop_limit |-> None],
     [period |-> None, period_limit |-> Some(1), drop_limit |-> None],
     [period |-> Some(None), period_limit |-> None, drop_limit |-> Some(3)]}

\* The amounts a faucet asks to drip.
Amounts == 0 .. 3

NextFaucets ==
    \/ \E origin \in AdminOrigins, faucet \in Accounts, settings \in SettingsInputs :
           add_faucet(origin, faucet, settings)
    \/ \E origin \in AdminOrigins, faucet \in Accounts, update \in UpdateInputs :
           update_faucet(origin, faucet, update)
    \/ \E origin \in AdminOrigins, faucets \in SUBSET Accounts :
           remove_faucets(origin, faucets)
    \/ \E faucet \in Accounts, amount \in Amounts, recipient \in Accounts :
           drip(faucet, amount, recipient)
    \/ NextBlock

\* The faucets pallet from genesis; the scoring storage is that of a chain on
\* which nothing has been scored.
InitFaucets ==
    /\ FaucetGenesis
    /\ SocialAccountById = EmptyMap
    /\ PostById = [p \in PostIds |-> 0]
    /\ SpaceById = [sp \in SpaceIds |-> 0]
    /\ PostScoreByAccount = EmptyMap
    /\ AccountReputationDiffByAccount = EmptyMap
    /\ events = <<>>
    /\ last = [op |-> "none"]
    /\ pre = FaucetStorage
    /\ steps = 0

SpecFaucets == InitFaucets /\ [][NextFaucets]_vars

\* ------------------------------------------------------------------ claims

\* The reputation of an account as the pallets read it.
Reputation(s, account) == get_or_new_social_account(s, account)

\* The call a step makes: the call recorded in the state the step leads to.
ScoresNow(account, post_id, action) ==
    /\ last'.op = "score"
    /\ last'.account = account
    /\ last'.post_id = post_id
    /\ last'.action = action

\* C1: every stored reputation is at least 1 after any sequence of scoring
\* actions and direct ledger calls.
C1_ReputationAtLeastOne ==
    \A a \in DOMAIN SocialAccountById : SocialAccountById[a] >= 1

\* The content the scoring claims speak of: a post inside a space, or a comment.
Scored(post_id) == is_comment(post_id) \/ space_id(post_id) # None

\* The opposite vote of a vote, None for the other actions.
OppositeVote(action) ==
    IF OppositePostAction(action) # None
    THEN OppositePostAction(action)
    ELSE OppositeCommentAction(action)

\* In storage s, account holds no record for the action on the post, nor for
\* the opposite vote.
NoRecord(s, account, post_id, action) ==
    /\ Get(s.PostScoreByAccount, <<account, post_id, action>>) = None
    /\ OppositeVote(action) # None =>
           Get(s.PostScoreByAccount, <<account, post_id, Unwrap(OppositeVote(action))>>) = None

\* The last call was a successful fresh application of an action by an account
\* that does not own the content.
FreshApplied ==
    /\ last.op = "score"
    /\ last.res = "Ok"
    /\ Scored(last.post_id)
    /\ created_account(last.post_id) # last.account
    /\ NoRecord(pre, last.account, last.post_id, last.action)

\* C2: when X applies A to C as a fresh application and then applies the same
\* A to C again, the second call succeeds and the score of C, the score of its
\* space and the reputation of the owner are back at their values from before
\* the first call, with the score record (X, C, A) and the diff record
\* (X, owner, A) both absent.
C2_IdempotentToggle ==
    [][(FreshApplied /\ ScoresNow(last.account, last.post_id, last.action)) =>
        LET X == last.account
            C == last.post_id
            A == last.action
            O == created_account(C)
        IN /\ last'.res = "Ok"
           /\ PostById'[C] = pre.PostById[C]
           /\ space_id(C) # None =>
                  SpaceById'[Unwrap(space_id(C))] = pre.SpaceById[Unwrap(space_id(C))]
           /\ Reputation(Storage', O) = Reputation(pre, O)
           /\ Get(PostScoreByAccount', <<X, C, A>>) = None
           /\ Get(AccountReputationDiffByAccount', <<X, O, A>>) = None]_vars

\* The storage as the callers observe it: the reputations as they are read,
\* the scores and the two record tables.
Observed(s) ==
    [reputation |-> [a \in Accounts |-> Reputation(s, a)],
     PostById |-> s.PostById,
     SpaceById |-> s.SpaceById,
     PostScoreByAccount |-> s.PostScoreByAccount,
     AccountReputationDiffByAccount |-> s.AccountReputationDiffByAccount]

\* C3: when a scoring action returns an error, the reputations, the post,
\* comment and space scores, the score records and the diff records are those
\* from before the action began.
C3_Atomicity ==
    [][(last'.op = "score" /\ last'.res # "Ok") =>
        Observed(Storage') = Observed(Storage)]_vars

Max(a, b) == IF a >= b THEN a ELSE b

\* The vote belongs to the family of the content: a post vote on a post inside
\* a space, a comment vote on a comment.
VoteOn(post_id, vote) ==
    IF is_comment(post_id)
    THEN vote \in {"UpvoteComment", "DownvoteComment"}
    ELSE space_id(post_id) # None /\ vote \in {"UpvotePost", "DownvotePost"}

\* C4: when X holds a vote V on C and successfully applies the opposite vote
\* W, the score of C, the score of its space and the reputation of the owner
\* are what applying W gives from the state without V: the contribution of V is
\* removed from all three.
C4_MutualExclusionNetEffect ==
    [][\A X \in Accounts, C \in PostIds, V \in ScoringAction :
        (/\ VoteOn(C, V)
         /\ created_account(C) # X
         /\ Get(PostScoreByAccount, <<X, C, V>>) # None
         /\ Get(PostScoreByAccount, <<X, C, Unwrap(OppositeVote(V))>>) = None
         /\ Get(AccountReputationDiffByAccount, <<X, created_account(C), V>>) # None
         /\ ScoresNow(X, C, Unwrap(OppositeVote(V)))
         /\ last'.res = "Ok") =>
            LET W == Unwrap(OppositeVote(V))
                O == created_account(C)
                v == PostScoreByAccount[<<X, C, V>>]
                d == score_diff_for_action(Reputation(Storage, X), W)
                without == Max(1, Reputation(Storage, O)
                                  - AccountReputationDiffByAccount[<<X, O, V>>])
            IN /\ PostById'[C] = PostById[C] - v + d
               /\ space_id(C) # None =>
                      SpaceById'[Unwrap(space_id(C))] =
                          SpaceById[Unwrap(space_id(C))] - v + d
               /\ Reputation(Storage', O) = Max(1, without + d)]_vars

RECURSIVE SumOfScores(_, _)
SumOfScores(scores, ids) ==
    IF ids = {} THEN 0
    ELSE LET p == CHOOSE q \in ids : TRUE
         IN scores[p] + SumOfScores(scores, ids \ {p})

\* The top-level posts directly inside a space.
PostsOfSpace(sp) == {p \in PostIds : ~is_comment(p) /\ space_id(p) = Some(sp)}

\* C5: starting from all scores zero, the score of each space equals the sum
\* of the scores of the posts directly inside it.
C5_SpaceLockStep ==
    \A sp \in SpaceIds : SpaceById[sp] = SumOfScores(PostById, PostsOfSpace(sp))

\* C6: for every score record (X, C, A) there is a diff record
\* (X, owner of C, A).
C6_RecordCoupling ==
    \A k \in DOMAIN PostScoreByAccount :
        <<k[1], created_account(k[2]), k[3]>> \in DOMAIN AccountReputationDiffByAccount

\* C7: a scoring action by the owner of the content returns Ok and leaves the
\* scores, the reputation of the owner, the score records and the diff
\* records unchanged.
C7_SelfActionNoOp ==
    [][(last'.op = "score" /\ created_account(last'.post_id) = last'.account) =>
        /\ last'.res = "Ok"
        /\ PostById' = PostById
        /\ SpaceById' = SpaceById
        /\ Reputation(Storage', last'.account) = Reputation(Storage, last'.account)
        /\ PostScoreByAccount' = PostScoreByAccount
        /\ AccountReputationDiffByAccount' = AccountReputationDiffByAccount]_vars

\* The owner has acted on content of theirs that others have scored.
C7_Witness ==
    /\ last.op = "score"
    /\ last.res = "Ok"
    /\ created_account(last.post_id) = last.account
    /\ Scored(last.post_id)
    /\ PostById[last.post_id] # 0
    /\ Reputation(Storage, last.account) > 1

\* C8: a successful fresh CreateComment by X on a comment K of another
\* account, whose root post P is in a space and is another account's, increases
\* the score of K and the score of P by smooth(reputation of X) times the
\* weight of CreateComment.
C8_CommentCreationPropagates ==
    [][\A X \in Accounts, K \in PostIds :
        (/\ is_comment(K)
         /\ created_account(K) # X
         /\ created_account(root_post_id(K)) # X
         /\ space_id(root_post_id(K)) # None
         /\ Get(PostScoreByAccount, <<X, K, "CreateComment">>) = None
         /\ ScoresNow(X, K, "CreateComment")
         /\ last'.res = "Ok") =>
            LET P == root_post_id(K)
                d == smooth_reputation(Reputation(Storage, X))
                         * weight_of_scoring_action("CreateComment")
            IN /\ PostById'[K] = PostById[K] + d
               /\ PostById'[P] = PostById[P] + d]_vars

\* C9: when X, not the owner, applies A to post P of space S with no score
\* record for (X, P, A), no record of the opposite vote and no bound exceeded,
\* then with d = smooth(reputation of X) * weight(A) the call succeeds, the
\* scores of P and S increase by d, the reputation of the owner increases by d
\* or is clamped to 1, the score record (X, P, A) holds d and a diff record
\* (X, owner, A) exists.
C9_FreshApplicationEffect ==
    [][\A X \in Accounts, P \in PostIds, A \in ScoringAction :
        LET S == Unwrap(space_id(P))
            O == created_account(P)
            d == score_diff_for_action(Reputation(Storage, X), A)
        IN (/\ ~is_comment(P)
            /\ space_id(P) # None
            /\ O # X
            /\ NoRecord(Storage, X, P, A)
            /\ InI32(PostById[P] + d)
            /\ InI32(SpaceById[S] + d)
            /\ Reputation(Storage, O) + d <= MaxRep
            /\ ScoresNow(X, P, A)) =>
               /\ last'.res = "Ok"
               /\ PostById'[P] = PostById[P] + d
               /\ SpaceById'[S] = SpaceById[S] + d
               /\ Reputation(Storage', O) = Max(1, Reputation(Storage, O) + d)
               /\ Get(PostScoreByAccount', <<X, P, A>>) = Some(d)
               /\ Get(AccountReputationDiffByAccount', <<X, O, A>>) # None]_vars

\* C10: an account holds at most one of the score records UpvotePost and
\* DownvotePost on a post, and at most one of UpvoteComment and
\* DownvoteComment on a comment.
C10_AtMostOneVote ==
    \A X \in Accounts, C \in PostIds :
        IF is_comment(C)
        THEN ~ (/\ <<X, C, "UpvoteComment">> \in DOMAIN PostScoreByAccount
                /\ <<X, C, "DownvoteComment">> \in DOMAIN PostScoreByAccount)
        ELSE ~ (/\ <<X, C, "UpvotePost">> \in DOMAIN PostScoreByAccount
                /\ <<X, C, "DownvotePost">> \in DOMAIN PostScoreByAccount)

\* An account that held a vote on a post has applied the opposite vote.
C10_Witness ==
    /\ last.op = "score"
    /\ last.res = "Ok"
    /\ last.action \in {"UpvotePost", "DownvotePost"}
    /\ ~is_comment(last.post_id)
    /\ last.calls = 1
    /\ <<last.account, last.post_id, last.action>> \in DOMAIN PostScoreByAccount
    /\ \E V \in {"UpvotePost", "DownvotePost"} \ {last.action} :
           <<last.account, last.post_id, V>> \in DOMAIN pre.PostScoreByAccount

\* The action family does not match the content shape: a post action on a
\* comment, or a comment action on a top-level post.
FamilyMismatch(post_id, action) ==
    IF is_comment(post_id)
    THEN action \in {"UpvotePost", "DownvotePost", "SharePost"}
    ELSE action \in {"CreateComment", "UpvoteComment", "DownvoteComment", "ShareComment"}

\* C11: change_post_score_by_extension fails with PostIsAComment or
\* PostIsNotAComment and changes nothing whenever the action family does not
\* match the content shape.
C11_RoutingErrors ==
    [][(last'.op = "score" /\ FamilyMismatch(last'.post_id, last'.action)) =>
        /\ last'.res \in {"PostIsAComment", "PostIsNotAComment"}
        /\ Storage' = Storage]_vars

\* The opposite reaction kind.
OppositeKind(reaction_kind) == IF reaction_kind = "Upvote" THEN "Downvote" ELSE "Upvote"

\* C12: scoring_action_by_post_extension maps an upvote on a non-comment to
\* UpvotePost, or to DownvotePost when reversed, a downvote to DownvotePost,
\* or to UpvotePost when reversed, and the same with the comment votes for a
\* comment; mapping with reverse equals mapping the opposite kind without
\* reverse, and the result is a post action for a non-comment and a comment
\* action for a comment.
C12_ReactionMapping ==
    last.op = "map" =>
        LET e == last.extension
            k == last.reaction_kind
            rv == last.reverse
            a == last.res
        IN /\ (e # "Comment" /\ k = "Upvote" /\ ~rv) => a = "UpvotePost"
           /\ (e # "Comment" /\ k = "Upvote" /\ rv) => a = "DownvotePost"
           /\ (e # "Comment" /\ k = "Downvote" /\ ~rv) => a = "DownvotePost"
           /\ (e # "Comment" /\ k = "Downvote" /\ rv) => a = "UpvotePost"
           /\ (e = "Comment" /\ k = "Upvote" /\ ~rv) => a = "UpvoteComment"
           /\ (e = "Comment" /\ k = "Upvote" /\ rv) => a = "DownvoteComment"
           /\ (e = "Comment" /\ k = "Downvote" /\ ~rv) => a = "DownvoteComment"
           /\ (e = "Comment" /\ k = "Downvote" /\ rv) => a = "UpvoteComment"
           /\ scoring_action_by_post_extension(e, k, TRUE)
                  = scoring_action_by_post_extension(e, OppositeKind(k), FALSE)
           /\ IF e = "Comment"
              THEN a \in {"UpvoteComment", "DownvoteComment"}
              ELSE a \in {"UpvotePost", "DownvotePost"}

\* A reversed upvote of a comment has been mapped.
C12_Witness ==
    /\ last.op = "map"
    /\ last.extension = "Comment"
    /\ last.reaction_kind = "Upvote"
    /\ last.reverse
    /\ last.res = "DownvoteComment"

\* The number of bits of a positive number.
BitLength(n) == CHOOSE k \in 1 .. MaxExp + 1 : 2 ^ (k - 1) <= n /\ n < 2 ^ k

\* C13: smooth_reputation is monotonic non-decreasing, returns 1 for the
\* reputations 0 and 1 and a value from 1 to the width of the reputation (32
\* for a u32), so that smooth * weight stays within signed 16 bits.
C13_SmoothingBounds ==
    last.op = "diff" =>
        /\ last.smooth >= 1
        /\ last.smooth <= 32
        /\ last.reputation >= 1 => last.smooth <= BitLength(last.reputation)
        /\ last.reputation <= 1 => last.smooth = 1
        /\ \A r \in SmoothInputs :
               r <= last.reputation => smooth_reputation(r) <= last.smooth
        /\ last.res >= - (2 ^ 15)
        /\ last.res <= 2 ^ 15 - 1

\* The smoothing has been applied to a reputation beyond the scaled range
\* that is one below a power of two.
C13_Witness ==
    /\ last.op = "diff"
    /\ last.reputation = 2 ^ MaxExp - 1
    /\ last.smooth = MaxExp
    /\ last.res = MaxExp * weight_of_scoring_action(last.action)
    /\ last.action = "DownvotePost"

\* The total the recipient's Drop counts against a faucet with the given
\* settings when a drip is called in storage s: nothing for a recipient
\* without a Drop or when the period has passed since the Drop's last_drop_at.
CountedTotal(s, recipient, settings) ==
    IF recipient \notin DOMAIN s.DropIdByRecipient THEN 0
    ELSE LET drop == s.DropById[s.DropIdByRecipient[recipient]]
         IN IF /\ settings.period # None
               /\ s.block_number >= Unwrap(settings.period)
               /\ s.block_number - Unwrap(settings.period) >= drop.last_drop_at
            THEN 0
            ELSE drop.total_dropped

\* C14: every successful drip is made by an account that has faucet settings,
\* has 0 < amount <= the faucet's drop_limit and leaves the recipient's
\* Drop.total_dropped at most the faucet's period_limit; a drip that would
\* exceed either limit fails with DropAmountLimit or FaucetLimitReached.
C14_DripBounds ==
    last.op = "drip" =>
        /\ last.res = "Ok" =>
               /\ last.faucet \in DOMAIN pre.SettingsByFaucet
               /\ 0 < last.amount
               /\ last.amount <= pre.SettingsByFaucet[last.faucet].drop_limit
               /\ DropById[DropIdByRecipient[last.recipient]].total_dropped
                      <= pre.SettingsByFaucet[last.faucet].period_limit
        /\ (/\ last.faucet \in DOMAIN pre.SettingsByFaucet
            /\ 0 < last.amount
            /\ \/ last.amount > pre.SettingsByFaucet[last.faucet].drop_limit
               \/ CountedTotal(pre, last.recipient, pre.SettingsByFaucet[last.faucet])
                      + last.amount > pre.SettingsByFaucet[last.faucet].period_limit) =>
               last.res \in {"DropAmountLimit", "FaucetLimitReached"}

\* A recipient that had received before has received again, up to the
\* period limit of the faucet.
C14_Witness ==
    /\ last.op = "drip"
    /\ last.res = "Ok"
    /\ last.recipient \in DOMAIN pre.DropIdByRecipient
    /\ pre.DropById[pre.DropIdByRecipient[last.recipient]].total_dropped > 0
    /\ DropById[DropIdByRecipient[last.recipient]].total_dropped
           = pre.SettingsByFaucet[last.faucet].period_limit
    /\ DropById[DropIdByRecipient[last.recipient]].total_dropped > last.amount

\* The call a step makes is a direct call of the ledger.
LedgerNow == last'.op = "ledger"

\* C15: a ledger call with delta < 0 and reputation + delta > 1 succeeds and
\* leaves the target's reputation at reputation - |delta|; ReputationUnderflow
\* is returned only when the subtraction would go below zero.
C15_NegativeDelta ==
    [][LedgerNow =>
        /\ (last'.diff < 0 /\ Reputation(Storage, last'.account) + last'.diff > 1) =>
               /\ last'.res = "Ok"
               /\ Reputation(Storage', last'.account)
                      = Reputation(Storage, last'.account) + last'.diff
        /\ last'.res = "ReputationUnderflow" =>
               Reputation(Storage, last'.account) + last'.diff < 0]_vars

\* C16: a ledger call with reputation + delta <= 1 succeeds, leaves the
\* target's reputation at exactly 1, and toggles the diff record with the
\* value 0: a record it inserts holds 0.
C16_FloorClamp ==
    [][(LedgerNow /\ Reputation(Storage, last'.account) + last'.diff <= 1) =>
        LET key == <<last'.scorer, last'.account, last'.action>>
        IN /\ last'.res = "Ok"
           /\ Get(SocialAccountById', last'.account) = Some(1)
           /\ IF key \in DOMAIN AccountReputationDiffByAccount
              THEN key \notin DOMAIN AccountReputationDiffByAccount'
              ELSE Get(AccountReputationDiffByAccount', key) = Some(0)]_vars

\* A reputation above 1 has been clamped to 1 and the record inserted holds 0.
C16_Witness ==
    /\ last.op = "ledger"
    /\ last.res = "Ok"
    /\ Reputation(pre, last.account) > 1
    /\ Reputation(pre, last.account) + last.diff <= 1
    /\ Reputation(Storage, last.account) = 1
    /\ <<last.scorer, last.account, last.action>>
           \notin DOMAIN pre.AccountReputationDiffByAccount
    /\ Get(AccountReputationDiffByAccount, <<last.scorer, last.account, last.action>>)
           = Some(0)

\* C17: when a ledger call fails with ReputationOverflow or
\* ReputationUnderflow, the stored reputations and the diff records are
\* unchanged and no event is deposited; a positive delta with reputation +
\* delta above the maximum of the reputation fails with ReputationOverflow.
C17_LedgerFailureClean ==
    [][LedgerNow =>
        /\ last'.res \in {"ReputationOverflow", "ReputationUnderflow"} =>
               /\ SocialAccountById' = SocialAccountById
               /\ AccountReputationDiffByAccount' = AccountReputationDiffByAccount
               /\ events' = <<>>
        /\ (last'.diff > 0 /\ Reputation(Storage, last'.account) + last'.diff > MaxRep) =>
               last'.res = "ReputationOverflow"]_vars

\* A ledger call has failed with ReputationOverflow on a target that holds
\* a diff record from an earlier call.
C17_Witness ==
    /\ last.op = "ledger"
    /\ last.res = "ReputationOverflow"
    /\ last.diff > 0
    /\ Reputation(pre, last.account) + last.diff > MaxRep
    /\ SocialAccountById = pre.SocialAccountById
    /\ AccountReputationDiffByAccount # EmptyMap

\* C18: a successful ledger call for the key (scorer, target, action) flips
\* the presence of the diff record of that key and touches no other key: a
\* record that exists is deleted, otherwise one is inserted that holds the
\* delta the clamp leaves, whatever the sign of the delta; two successful
\* calls in a row for one key leave the table as it was.
C18_ToggleByPresence ==
    [][(LedgerNow /\ last'.res = "Ok") =>
        LET key == <<last'.scorer, last'.account, last'.action>>
            delta == IF Reputation(Storage, last'.account) + last'.diff <= 1
                     THEN 0 ELSE last'.diff
        IN /\ IF key \in DOMAIN AccountReputationDiffByAccount
              THEN key \notin DOMAIN AccountReputationDiffByAccount'
              ELSE Get(AccountReputationDiffByAccount', key) = Some(delta)
           /\ \A k \in (DOMAIN AccountReputationDiffByAccount
                         \cup DOMAIN AccountReputationDiffByAccount') \ {key} :
                  Get(AccountReputationDiffByAccount', k)
                      = Get(AccountReputationDiffByAccount, k)
           /\ (/\ last.op = "ledger"
               /\ last.res = "Ok"
               /\ <<last.scorer, last.account, last.action>> = key) =>
                  AccountReputationDiffByAccount' = pre.AccountReputationDiffByAccount]_vars

\* C18, amended: as C18, but two successful calls in a row for one key leave
\* the keys of the table as they were, and the table as it was when the key
\* had no record before the first of the two calls.
C18_ToggleByPresenceAmended ==
    [][(LedgerNow /\ last'.res = "Ok") =>
        LET key == <<last'.scorer, last'.account, last'.action>>
            delta == IF Reputation(Storage, last'.account) + last'.diff <= 1
                     THEN 0 ELSE last'.diff
        IN /\ IF key \in DOMAIN AccountReputationDiffByAccount
              THEN key \notin DOMAIN AccountReputationDiffByAccount'
              ELSE Get(AccountReputationDiffByAccount', key) = Some(delta)
           /\ \A k \in (DOMAIN AccountReputationDiffByAccount
                         \cup DOMAIN AccountReputationDiffByAccount') \ {key} :
                  Get(AccountReputationDiffByAccount', k)
                      = Get(AccountReputationDiffByAccount, k)
           /\ (/\ last.op = "ledger"
               /\ last.res = "Ok"
               /\ <<last.scorer, last.account, last.action>> = key) =>
                  /\ DOMAIN AccountReputationDiffByAccount'
                         = DOMAIN pre.AccountReputationDiffByAccount
                  /\ key \notin DOMAIN pre.AccountReputationDiffByAccount =>
                         AccountReputationDiffByAccount'
                             = pre.AccountReputationDiffByAccount]_vars

\* Two successful ledger calls in a row for one key, the second with a
\* positive delta, while the table holds a record of another key.
C18_Witness ==
    /\ last.op = "ledger"
    /\ last.res = "Ok"
    /\ last.diff > 0
    /\ <<last.scorer, last.account, last.action>>
           \in DOMAIN pre.AccountReputationDiffByAccount
    /\ <<last.scorer, last.account, last.action>>
           \notin DOMAIN AccountReputationDiffByAccount
    /\ AccountReputationDiffByAccount # EmptyMap
    /\ steps = 3

\* C19: a scoring action makes at most one nested scoring call, the reversal
\* of the opposite vote or the forwarding of CreateComment to the root post,
\* and that call makes none; a nested reversal that returned Ok has removed
\* the score record of the opposite vote.
C19_BoundedRecursion ==
    last.op = "score" =>
        /\ last.calls <= 1
        /\ last.calls = 1 =>
               \/ is_comment(last.post_id) /\ last.action = "CreateComment"
               \/ /\ OppositeVote(last.action) # None
                  /\ <<last.account, last.post_id, Unwrap(OppositeVote(last.action))>>
                         \in DOMAIN pre.PostScoreByAccount
                  /\ last.res = "Ok" =>
                         <<last.account, last.post_id, Unwrap(OppositeVote(last.action))>>
                             \notin DOMAIN PostScoreByAccount

\* A CreateComment on a comment has been forwarded to a root post on which
\* the account holds an upvote.
C19_Witness ==
    /\ last.op = "score"
    /\ last.res = "Ok"
    /\ last.calls = 1
    /\ is_comment(last.post_id)
    /\ last.action = "CreateComment"
    /\ <<last.account, root_post_id(last.post_id), "UpvotePost">>
           \in DOMAIN PostScoreByAccount

\* The score records of a post.
RecordsOf(records, post_id) == {k \in DOMAIN records : k[2] = post_id}

\* C20: a scoring action by a non-owner on a top-level post without a space
\* returns Ok and changes no score, no reputation, no score record and no
\* diff record; a CreateComment on a comment whose root post has no space
\* scores only the comment.
C20_PostWithoutSpace ==
    [][last'.op = "score" =>
        /\ (/\ ~is_comment(last'.post_id)
            /\ last'.post_id \notin SpacePosts
            /\ created_account(last'.post_id) # last'.account) =>
               /\ last'.res = "Ok"
               /\ Observed(Storage') = Observed(Storage)
        /\ (/\ is_comment(last'.post_id)
            /\ root_post_id(last'.post_id) \notin SpacePosts
            /\ created_account(last'.post_id) # last'.account
            /\ last'.action = "CreateComment"
            /\ last'.res = "Ok") =>
               LET K == last'.post_id
                   P == root_post_id(K)
               IN /\ \A p \in PostIds \ {K} : PostById'[p] = PostById[p]
                  /\ SpaceById' = SpaceById
                  /\ RecordsOf(PostScoreByAccount', P) = RecordsOf(PostScoreByAccount, P)
                  /\ PostById'[K] # PostById[K]]_vars

\* A fresh CreateComment on a comment whose root post has no space has
\* scored the comment.
C20_Witness ==
    /\ last.op = "score"
    /\ last.res = "Ok"
    /\ last.action = "CreateComment"
    /\ is_comment(last.post_id)
    /\ root_post_id(last.post_id) \notin SpacePosts
    /\ last.calls = 1
    /\ PostById[last.post_id] > pre.PostById[last.post_id]
    /\ PostById[root_post_id(last.post_id)] = 0

\* What a faucet has dripped to a recipient in the given blocks since the
\* faucet's settings were last set.
RECURSIVE DrippedIn(_, _, _)
DrippedIn(faucet, recipient, blocks) ==
    IF blocks = {} THEN 0
    ELSE LET b == CHOOSE c \in blocks : TRUE
         IN Read(drips_since, <<faucet, recipient, b>>)
                + DrippedIn(faucet, recipient, blocks \ {b})

\* C21: for a faucet whose settings stay at period = Some(p) and
\* period_limit = L, the amounts it successfully drips to one recipient within
\* any p consecutive blocks sum to at most L.
C21_RateLimitPerPeriod ==
    \A F \in DOMAIN SettingsByFaucet, U \in Accounts, b \in 1 .. MaxBlock :
        SettingsByFaucet[F].period # None =>
            DrippedIn(F, U, b .. (b + Unwrap(SettingsByFaucet[F].period) - 1))
                <= SettingsByFaucet[F].period_limit

\* C22: for a faucet whose settings stay at period = None and
\* period_limit = L, the amount it has dripped to a recipient never exceeds L,
\* whatever other faucets drip to the same recipient in between.
C22_LifetimeCap ==
    \A F \in DOMAIN SettingsByFaucet, U \in Accounts :
        SettingsByFaucet[F].period = None =>
            DrippedIn(F, U, 1 .. MaxBlock) <= SettingsByFaucet[F].period_limit

\* C23: for every faucet F and user U, TotalFaucetDropsByAccount read with F
\* as first key and U as second key equals the sum of the amounts of all
\* successful drips from F to U; as that sum it never decreases and no period
\* rollover resets it.
C23_TotalsAccounting ==
    \A F \in Accounts, U \in Accounts :
        TotalDrops(F, U) = Read(drips_total, <<F, U>>)

\* The call a step makes is a drip.
DripNow == last'.op = "drip" /\ steps' = steps + 1

\* C24: a drip that fails, with ZeroAmount for amount 0, FaucetNotFound for a
\* caller without settings, DropAmountLimit, FaucetLimitReached or a failed
\* transfer, leaves the balances, DropById, DropIdByRecipient, NextDropId and
\* TotalFaucetDropsByAccount unchanged, the period reset of an existing Drop
\* included.
C24_FailedDripChangesNothing ==
    [][DripNow =>
        /\ last'.amount = 0 => last'.res = "ZeroAmount"
        /\ (last'.amount > 0 /\ last'.faucet \notin DOMAIN SettingsByFaucet) =>
               last'.res = "FaucetNotFound"
        /\ last'.res # "Ok" =>
               /\ free_balance' = free_balance
               /\ DropById' = DropById
               /\ DropIdByRecipient' = DropIdByRecipient
               /\ NextDropId' = NextDropId
               /\ TotalFaucetDropsByAccount' = TotalFaucetDropsByAccount]_vars

\* A drip has failed at the transfer, after the rollover of the recipient's
\* Drop was computed and the limits were passed.
C24_Witness ==
    /\ last.op = "drip"
    /\ last.res = "KeepAlive"
    /\ last.recipient \in DOMAIN pre.DropIdByRecipient
    /\ pre.DropById[pre.DropIdByRecipient[last.recipient]].total_dropped > 0
    /\ CountedTotal(pre, last.recipient, pre.SettingsByFaucet[last.faucet]) = 0
    /\ DropById = pre.DropById
    /\ free_balance = pre.free_balance

====
